---- MODULE Spec2Model ----
(***************************************************************************)
(* FunConcurrency: the upgradable shared/exclusive lock (src/src/lock.rs)  *)
(* and the concurrent append-only vector AVec built on it (src/src/lib.rs).*)
(*                                                                         *)
(* Every atomic access of the lock word or of the length counter is one    *)
(* step of the model; threads interleave between steps (sequentially       *)
(* consistent memory: the orderings used in the source are not modelled).  *)
(***************************************************************************)
EXTENDS Integers, Sequences, FiniteSets

\* ------------------------------------------------------------------ bounds
NThreads == 2
\* LockSpec: live guards one thread may own at once, and writes of the payload
MaxGuards == 2
MaxWrites == 2
\* PushSpec: calls of push in all, and the largest initial capacity
MaxPushes == 4
MaxInitCap == 2
\* Spec: calls of push and of get in all, and the largest index passed to get
MaxMixedPushes == 3
MaxGets == 1
MaxIndex == 1
\* ReadSpec: calls of push and of get in all
MaxReadPushes == 3
MaxReads == 2
\* MutexSpec: calls of SpinMutex::lock in all
MaxLocks == 6

\* the threads of the clients of the vector, of the lock and of the mutex
Threads == 1..NThreads

\* one more thread, which only ever asks for the exclusive lock (StarveSpec); in the
\* other specifications it makes no call
Writer == NThreads + 1
AllThreads == Threads \cup {Writer}

\* --------------------------------------------------------------- lock word
\* The lock word is a u64. Its value is top * 2^63 + low, kept as the pair
\* (top bit, low 63 bits); low is a representative modulo 2^63, so the
\* all-ones pattern a wrap-around leaves is written -1.
LOCK_FREE == [top |-> 0, low |-> 0]
LOCK_ALLOC == [top |-> 1, low |-> 0]
WShared(n) == [top |-> 0, low |-> n]

\* w + 1 and w - 1 in u64 arithmetic (fetch_add / fetch_sub wrap)
WAdd1(w) == IF w.low = -1 THEN [top |-> 1 - w.top, low |-> 0]
            ELSE [top |-> w.top, low |-> w.low + 1]
WSub1(w) == IF w.low = 0 THEN [top |-> 1 - w.top, low |-> -1]
            ELSE [top |-> w.top, low |-> w.low - 1]

\* ------------------------------------------------------------------ state
VARIABLES
    val,      \* Lock.val: the atomic lock word
    pc,       \* per thread: where it is in the call it is executing
    cur,      \* per thread: the local `current` of lock_shared's loop
    sh,       \* per thread: live LockSharedGuard values it owns
    ex,       \* per thread: live LockExclusiveGuard values it owns
    data,     \* Lock.data of the plain Lock<u64> the lock clients share
    seen,     \* per thread: payload visible under the shared guard it gave up in upgrade
    got,      \* per thread: payload read through the guard upgrade returned
    gapw,     \* per thread: some other thread wrote the payload during its upgrade gap
    dgLive,   \* a downgraded shared guard, or one taken while it was live, is still live
    inner,    \* AVecInner behind the vector's lock: data (a buffer), cap, len
    heap,     \* every buffer alloc has returned, by address: live, cap, cells, past
    top,      \* per thread: push's local top_element
    nw,       \* per thread: ensure_cap's local new_inner
    gi,       \* per thread: the index argument of the get it is executing
    borrows,  \* per thread: the live AVecRefElement values it owns
    nPush,    \* per thread: calls of push it has made
    left,     \* the calls of push and of get the workload has yet to make, by all threads
    written,  \* the slot writes pushes have made: <<index, value>>
    vec,      \* the AVec value: live, dropping (in Drop::drop) or dropped
    di,       \* Drop::drop's locals: len and the loop index
    dtor,     \* the indices whose element Drop::drop has dropped, in order
    crashed,  \* the process was killed by a fault of an out-of-bounds access
    reserved, \* the indices len.fetch_add has handed to pushes, in order
    locked,   \* SpinMutex.locked: the atomic flag
    mg,       \* per thread: live SpinMutexGuard values it owns
    mdata,    \* SpinMutex.data
    mleft     \* the calls of SpinMutex::lock the workload has yet to make

lockVars == <<val, pc, cur, sh, ex>>
cellVars == <<data, seen, got, gapw, dgLive>>
vecVars == <<inner, heap, top, nw, gi, borrows, nPush, left, written, vec, di, dtor, crashed, reserved>>
mutexVars == <<locked, mg, mdata, mleft>>
vars == <<lockVars, cellVars, vecVars, mutexVars>>

\* Option<u64>: None, or Some(v)
None == <<>>
Some(v) == <<v>>

\* --------------------------------------------------------- lock operations
\* lock_shared: compare_exchange(current, target) succeeds iff the word is `current`
SharedCasOk(w, c) == w = c

\* a lock_shared whose target stays the 1 it starts with
SharedCasTargetOne(c) == WShared(1)

\* lock_shared: the word a successful exchange installs (target = current + 1)
SharedCasTarget(c) == WAdd1(c)

\* a lock_shared without the Err(LOCK_ALLOC) arm: it retries from whatever it read
SharedCasRetryAny(actual) == actual

\* a lock_shared that starts again from FREE after every failed exchange, so that it
\* completes only once every other holder has released
SharedCasRetryFree(actual) == LOCK_FREE

\* lock_shared: the next `current` after a failed exchange that read `actual`
SharedCasRetry(actual) == IF actual = LOCK_ALLOC THEN LOCK_FREE ELSE actual

\* a lock_exclusive that tests the exclusive bit alone and overlooks the shared count
ExclusiveCasOkTopBit(w) == w.top = 0

\* a lock_exclusive that succeeds whenever no exclusive guard is live
ExclusiveCasOkNotAlloc(w) == w # LOCK_ALLOC

\* lock_exclusive: compare_exchange(LOCK_FREE, LOCK_ALLOC) succeeds iff the word is free
ExclusiveCasOk(w) == w = LOCK_FREE

\* a shared guard that is forgotten instead of dropped: the word keeps its count
SharedDropWordKeep(w) == w

\* Drop for LockSharedGuard: val.fetch_sub(1)
SharedDropWord(w) == WSub1(w)

\* an exclusive release that decrements the word as the shared release does
ExclusiveDropWordSub == WSub1(val)

\* Drop for LockExclusiveGuard: val.store(0)
ExclusiveDropWord == LOCK_FREE

\* a downgrade that releases the word before the shared guard is made
DowngradeWordFree == LOCK_FREE

\* LockExclusiveGuard::downgrade: val.store(1)
DowngradeWord == WShared(1)

\* a read that returns what the caller saw before it upgraded
ExclusiveDerefStale(t) == seen[t][1]

\* Deref for LockExclusiveGuard: reads the payload in place
ExclusiveDeref(t) == data

Guards(t) == sh[t] + ex[t]

RECURSIVE SumOver(_, _)
SumOver(f, S) == IF S = {} THEN 0
                 ELSE LET x == CHOOSE y \in S : TRUE IN f[x] + SumOver(f, S \ {x})
SharedLive == SumOver(sh, AllThreads)
ExclusiveLive == SumOver(ex, AllThreads)

\* no SpinMutex is in use
NoMutex ==
    /\ locked = FALSE
    /\ mg = [t \in AllThreads |-> 0]
    /\ mdata = 0
    /\ mleft = 0

\* --------------------------------------------------- Lock<u64> and clients
LockInit ==
    /\ val = LOCK_FREE
    /\ pc = [t \in AllThreads |-> "idle"]
    /\ cur = [t \in AllThreads |-> LOCK_FREE]
    /\ sh = [t \in AllThreads |-> 0]
    /\ ex = [t \in AllThreads |-> 0]

CellInit ==
    /\ data = 0
    /\ seen = [t \in AllThreads |-> None]
    /\ got = [t \in AllThreads |-> None]
    /\ gapw = [t \in AllThreads |-> FALSE]
    /\ dgLive = FALSE

\* one iteration of the loop of Lock::lock_shared; the caller continues at `after`
AcquireShared(t, waiting, after) ==
    IF SharedCasOk(val, cur[t])
    THEN /\ val' = SharedCasTarget(cur[t])
         /\ sh' = [sh EXCEPT ![t] = @ + 1]
         /\ pc' = [pc EXCEPT ![t] = after]
         /\ cur' = [cur EXCEPT ![t] = LOCK_FREE]
    ELSE /\ cur' = [cur EXCEPT ![t] = SharedCasRetry(val)]
         /\ pc' = [pc EXCEPT ![t] = waiting]
         /\ UNCHANGED <<val, sh>>

\* one iteration of the loop of Lock::lock_exclusive; the caller continues at `after`
AcquireExclusive(t, waiting, after) ==
    IF ExclusiveCasOk(val)
    THEN /\ val' = LOCK_ALLOC
         /\ ex' = [ex EXCEPT ![t] = @ + 1]
         /\ pc' = [pc EXCEPT ![t] = after]
    ELSE /\ pc' = [pc EXCEPT ![t] = waiting]
         /\ UNCHANGED <<val, ex>>

LockShared(t) ==
    /\ pc[t] \in {"idle", "lock_shared"}
    /\ pc[t] = "idle" => Guards(t) < MaxGuards
    /\ AcquireShared(t, "lock_shared", "idle")
    /\ UNCHANGED <<ex, cellVars, vecVars, mutexVars>>

\* lock_exclusive called directly, or by upgrade after it dropped the shared guard
LockExclusive(t) ==
    /\ pc[t] \in {"idle", "lock_exclusive", "upgrade"}
    /\ pc[t] = "idle" => Guards(t) < MaxGuards
    /\ AcquireExclusive(t, IF pc[t] = "idle" THEN "lock_exclusive" ELSE pc[t], "idle")
    /\ UNCHANGED <<cur, sh, cellVars, vecVars, mutexVars>>

\* a live guard is only dropped by its owner while the owner is not inside a call
DropShared(t) ==
    /\ pc[t] = "idle"
    /\ sh[t] > 0
    /\ val' = SharedDropWord(val)
    /\ sh' = [sh EXCEPT ![t] = @ - 1]
    /\ dgLive' = (dgLive /\ SumOver(sh', AllThreads) > 0)
    /\ UNCHANGED <<pc, cur, ex, data, seen, got, gapw, vecVars, mutexVars>>

DropExclusive(t) ==
    /\ pc[t] = "idle"
    /\ ex[t] > 0
    /\ val' = ExclusiveDropWord
    /\ ex' = [ex EXCEPT ![t] = @ - 1]
    /\ seen' = [seen EXCEPT ![t] = None]
    /\ got' = [got EXCEPT ![t] = None]
    /\ gapw' = [gapw EXCEPT ![t] = FALSE]
    /\ UNCHANGED <<pc, cur, sh, data, dgLive, vecVars, mutexVars>>

\* LockSharedGuard::upgrade: drop(self), then lock.lock_exclusive()
Upgrade(t) ==
    /\ pc[t] = "idle"
    /\ sh[t] > 0
    /\ seen[t] = None
    /\ val' = SharedDropWord(val)
    /\ sh' = [sh EXCEPT ![t] = @ - 1]
    /\ pc' = [pc EXCEPT ![t] = "upgrade"]
    /\ seen' = [seen EXCEPT ![t] = Some(data)]
    /\ dgLive' = (dgLive /\ SumOver(sh', AllThreads) > 0)
    /\ UNCHANGED <<cur, ex, data, got, gapw, vecVars, mutexVars>>

\* LockExclusiveGuard::downgrade: one store, forget(self), a new shared guard
Downgrade(t) ==
    /\ pc[t] = "idle"
    /\ ex[t] > 0
    /\ val' = DowngradeWord
    /\ ex' = [ex EXCEPT ![t] = @ - 1]
    /\ sh' = [sh EXCEPT ![t] = @ + 1]
    /\ dgLive' = TRUE
    /\ seen' = [seen EXCEPT ![t] = None]
    /\ got' = [got EXCEPT ![t] = None]
    /\ gapw' = [gapw EXCEPT ![t] = FALSE]
    /\ UNCHANGED <<pc, cur, data, vecVars, mutexVars>>

\* DerefMut for LockExclusiveGuard: `*guard = i`
WriteExclusive(t) ==
    /\ pc[t] = "idle"
    /\ ex[t] > 0
    /\ data < MaxWrites
    /\ data' = data + 1
    /\ gapw' = [u \in AllThreads |-> gapw[u] \/ (u # t /\ pc[u] = "upgrade")]
    /\ UNCHANGED <<lockVars, seen, got, dgLive, vecVars, mutexVars>>

\* Deref for LockExclusiveGuard, by the caller of upgrade on the guard it got back
ReadExclusive(t) ==
    /\ pc[t] = "idle"
    /\ ex[t] > 0
    /\ seen[t] # None
    /\ got[t] = None
    /\ got' = [got EXCEPT ![t] = Some(ExclusiveDeref(t))]
    /\ UNCHANGED <<lockVars, data, seen, gapw, dgLive, vecVars, mutexVars>>

LockNext ==
    \E t \in Threads :
        \/ LockShared(t)
        \/ LockExclusive(t)
        \/ DropShared(t)
        \/ DropExclusive(t)
        \/ Upgrade(t)
        \/ Downgrade(t)
        \/ WriteExclusive(t)
        \/ ReadExclusive(t)

\* the lock clients have no vector
NoVec ==
    /\ inner = None
    /\ heap = <<>>
    /\ top = [t \in AllThreads |-> None]
    /\ nw = [t \in AllThreads |-> None]
    /\ gi = [t \in AllThreads |-> None]
    /\ borrows = [t \in AllThreads |-> <<>>]
    /\ nPush = [t \in AllThreads |-> 0]
    /\ left = [push |-> 0, get |-> 0]
    /\ written = {}
    /\ vec = "none"
    /\ di = None
    /\ dtor = <<>>
    /\ crashed = FALSE
    /\ reserved = <<>>

LockClientInit == LockInit /\ CellInit /\ NoVec /\ NoMutex

LockSpec == LockClientInit /\ [][LockNext]_vars

\* sustained shared traffic: a reader drops a guard only while another shared guard is live
ReaderDrop(t) ==
    /\ SharedLive >= 2
    /\ DropShared(t)

\* the threads of Threads take and release shared guards; Writer takes the exclusive lock
StarveNext ==
    \/ \E t \in Threads : LockShared(t) \/ ReaderDrop(t)
    \/ LockExclusive(Writer)
    \/ DropExclusive(Writer)

\* every thread is scheduled again and again
StarveSpec ==
    /\ LockClientInit
    /\ [][StarveNext]_vars
    /\ \A t \in Threads : WF_vars(LockShared(t)) /\ WF_vars(ReaderDrop(t))
    /\ WF_vars(LockExclusive(Writer)) /\ WF_vars(DropExclusive(Writer))

\* ------------------------------------------------------------- SpinMutex<T>
\* a lock() that takes the flag for free whatever the swap returned
MutexSwapOkAlways(prev) == TRUE

\* lock: `if !self.locked.swap(true) { break }`, on the value the swap returned
MutexSwapOk(prev) == ~prev

\* SpinMutex::new(data), and the workload: MaxLocks calls of lock
MutexInit ==
    /\ LockInit /\ CellInit /\ NoVec
    /\ locked = FALSE
    /\ mg = [t \in AllThreads |-> 0]
    /\ mdata = 0
    /\ mleft = MaxLocks

\* one iteration of the loop of SpinMutex::lock
MutexLock(t) ==
    /\ \/ /\ pc[t] = "idle"
          /\ mleft > 0
          /\ mleft' = mleft - 1
       \/ /\ pc[t] = "mutex_lock"
          /\ UNCHANGED mleft
    /\ locked' = TRUE
    /\ IF MutexSwapOk(locked)
       THEN /\ mg' = [mg EXCEPT ![t] = @ + 1]
            /\ pc' = [pc EXCEPT ![t] = "idle"]
       ELSE /\ pc' = [pc EXCEPT ![t] = "mutex_lock"]
            /\ UNCHANGED mg
    /\ UNCHANGED <<val, cur, sh, ex, cellVars, vecVars, mdata>>

\* Drop for SpinMutexGuard: locked.store(false)
MutexDrop(t) ==
    /\ pc[t] = "idle"
    /\ mg[t] > 0
    /\ locked' = FALSE
    /\ mg' = [mg EXCEPT ![t] = @ - 1]
    /\ UNCHANGED <<lockVars, cellVars, vecVars, mdata, mleft>>

\* DerefMut for SpinMutexGuard: the owner of the guard writes the payload
MutexWrite(t) ==
    /\ pc[t] = "idle"
    /\ mg[t] > 0
    /\ mdata < MaxWrites
    /\ mdata' = mdata + 1
    /\ UNCHANGED <<lockVars, cellVars, vecVars, locked, mg, mleft>>

MutexNext == \E t \in Threads : MutexLock(t) \/ MutexDrop(t) \/ MutexWrite(t)

MutexSpec == MutexInit /\ [][MutexNext]_vars

\* ------------------------------------------------------------------ AVec<T>
\* alloc(Layout::array::<T>(cap)): a fresh buffer of cap uninitialized cells.
\* `past` is the memory behind the allocation that a write beyond cap has hit,
\* `frees` the number of times dealloc was called on the buffer.
NewBuffer(cap) ==
    [live |-> TRUE, cap |-> cap, cells |-> [i \in 1..cap |-> None], past |-> {}, frees |-> 0]

\* dealloc: the buffer is gone
Freed(b) == [live |-> FALSE, cap |-> b.cap, cells |-> <<>>, past |-> {}, frees |-> b.frees + 1]

\* a growth that adds one cell
GrownCapPlusOne(cap) == cap + 1

\* ensure_cap: the capacity of new_inner
GrownCap(cap) == cap * 2

\* a new inner state whose length counter starts again from zero
GrownLenZero(len) == 0

\* ensure_cap: `len: AtomicUsize::new(inner.len.load())` of new_inner
GrownLen(len) == len

\* ensure_cap: both tests of the capacity against the one asked for
CapCovers(have, want) == have >= want

\* ptr::copy(inner.data, new_inner.data, inner.cap): the first n cells of `from` over `to`
CopyCells(from, to, n) ==
    [i \in 1..Len(to) |-> IF i <= n /\ i <= Len(from) THEN from[i] ELSE to[i]]

\* what is stored at data.add(i): a cell of the buffer, or the memory behind it
PastAt(b, i) == IF \E p \in b.past : p[1] = i
                THEN Some((CHOOSE p \in b.past : p[1] = i)[2])
                ELSE None
SlotAt(b, i) == IF i < b.cap THEN b.cells[i + 1] ELSE PastAt(b, i)

\* the value the k-th push of a thread pushes (many_threads pushes 1, 2, ..)
Element(k) == k

\* AVec::new(cap) for a cap in `caps`, and the workload: `pushes` calls of push and
\* `gets` calls of get
VecInit(pushes, gets, caps) ==
    /\ left = [push |-> pushes, get |-> gets]
    /\ \E cap \in caps :
        /\ heap = <<NewBuffer(cap)>>
        /\ inner = [data |-> 1, cap |-> cap, len |-> 0]
    /\ top = [t \in AllThreads |-> None]
    /\ nw = [t \in AllThreads |-> None]
    /\ gi = [t \in AllThreads |-> None]
    /\ borrows = [t \in AllThreads |-> <<>>]
    /\ nPush = [t \in AllThreads |-> 0]
    /\ written = {}
    /\ vec = "live"
    /\ di = None
    /\ dtor = <<>>
    /\ crashed = FALSE
    /\ reserved = <<>>

\* pushes and gets on a vector of the smallest capacity, where every push but the
\* first finds the buffer too small
Init == LockInit /\ CellInit /\ NoMutex /\ VecInit(MaxMixedPushes, MaxGets, {1})

\* pushes alone (many_threads), on a vector of any initial capacity
PushInit == LockInit /\ CellInit /\ NoMutex /\ VecInit(MaxPushes, 0, 1..MaxInitCap)

\* a thread can call into the vector while it is alive and the process runs
CanCall(t) == pc[t] = "idle" /\ vec = "live" /\ ~crashed
Running(t, at) == pc[t] = at /\ ~crashed

\* Drop for LockSharedGuard, at the end of the scope that owns the guard
ReleaseShared(t) ==
    /\ val' = SharedDropWord(val)
    /\ sh' = [sh EXCEPT ![t] = @ - 1]

\* push: `let inner = self.lock.lock_shared()`
PushLock(t) ==
    /\ \/ /\ CanCall(t)
          /\ left.push > 0
          /\ left' = [left EXCEPT !.push = @ - 1]
          /\ nPush' = [nPush EXCEPT ![t] = @ + 1]
       \/ /\ Running(t, "push_lock")
          /\ UNCHANGED <<left, nPush>>
    /\ AcquireShared(t, "push_lock", "push_fetch_add")
    /\ UNCHANGED <<ex, cellVars, mutexVars, inner, heap, top, nw, gi, borrows, written, vec, di, dtor, crashed, reserved>>

\* a push that takes its index from the length and leaves the length as it is
PushFetchAddUnpublished(t) ==
    /\ Running(t, "push_fetch_add")
    /\ top' = [top EXCEPT ![t] = Some(inner.len)]
    /\ reserved' = Append(reserved, inner.len)
    /\ pc' = [pc EXCEPT ![t] = "ensure_check"]
    /\ UNCHANGED <<val, cur, sh, ex, cellVars, mutexVars, inner, heap, nw, gi, borrows, nPush, left, written, vec, di, dtor, crashed>>

\* push: `let top_element = inner.len.fetch_add(1)`
PushFetchAdd(t) ==
    /\ Running(t, "push_fetch_add")
    /\ top' = [top EXCEPT ![t] = Some(inner.len)]
    /\ reserved' = Append(reserved, inner.len)
    /\ inner' = [inner EXCEPT !.len = @ + 1]
    /\ pc' = [pc EXCEPT ![t] = "ensure_check"]
    /\ UNCHANGED <<val, cur, sh, ex, cellVars, mutexVars, heap, nw, gi, borrows, nPush, left, written, vec, di, dtor, crashed>>

\* an ensure_cap that grows the buffer under the shared guard it was given
EnsureCheckNoUpgrade(t) ==
    /\ Running(t, "ensure_check")
    /\ pc' = [pc EXCEPT ![t] = IF CapCovers(inner.cap, top[t][1] + 1)
                               THEN "push_write" ELSE "grow_alloc"]
    /\ UNCHANGED <<val, cur, sh, ex, cellVars, vecVars, mutexVars>>

\* ensure_cap(top_element + 1, inner): `if inner.cap < cap`
EnsureCheck(t) ==
    /\ Running(t, "ensure_check")
    /\ pc' = [pc EXCEPT ![t] = IF CapCovers(inner.cap, top[t][1] + 1)
                               THEN "push_write" ELSE "upgrade_drop"]
    /\ UNCHANGED <<val, cur, sh, ex, cellVars, vecVars, mutexVars>>

\* inner.upgrade(): drop(self)
UpgradeDrop(t) ==
    /\ Running(t, "upgrade_drop")
    /\ ReleaseShared(t)
    /\ pc' = [pc EXCEPT ![t] = "upgrade_lock"]
    /\ UNCHANGED <<cur, ex, cellVars, vecVars, mutexVars>>

\* inner.upgrade(): lock.lock_exclusive()
UpgradeLock(t) ==
    /\ Running(t, "upgrade_lock")
    /\ AcquireExclusive(t, "upgrade_lock", "ensure_recheck")
    /\ UNCHANGED <<cur, sh, cellVars, vecVars, mutexVars>>

\* an ensure_cap that grows the buffer after the upgrade without looking again
EnsureRecheckAlwaysGrow(t) ==
    /\ Running(t, "ensure_recheck")
    /\ pc' = [pc EXCEPT ![t] = "grow_alloc"]
    /\ UNCHANGED <<val, cur, sh, ex, cellVars, vecVars, mutexVars>>

\* ensure_cap: `if inner.cap >= cap { return inner.downgrade() }`
EnsureRecheck(t) ==
    /\ Running(t, "ensure_recheck")
    /\ pc' = [pc EXCEPT ![t] = IF CapCovers(inner.cap, top[t][1] + 1)
                               THEN "recheck_downgrade" ELSE "grow_alloc"]
    /\ UNCHANGED <<val, cur, sh, ex, cellVars, vecVars, mutexVars>>

\* ensure_cap: `let new_inner = AVecInner { data: alloc(cap * 2), cap: cap * 2, len: len }`
GrowAlloc(t) ==
    /\ Running(t, "grow_alloc")
    /\ heap' = Append(heap, NewBuffer(GrownCap(inner.cap)))
    /\ nw' = [nw EXCEPT ![t] = Some([data |-> Len(heap) + 1,
                                     cap |-> GrownCap(inner.cap),
                                     len |-> GrownLen(inner.len)])]
    /\ pc' = [pc EXCEPT ![t] = "grow_copy"]
    /\ UNCHANGED <<val, cur, sh, ex, cellVars, mutexVars, inner, top, gi, borrows, nPush, left, written, vec, di, dtor, crashed, reserved>>

\* ensure_cap: ptr::copy(inner.data, new_inner.data, inner.cap)
GrowCopy(t) ==
    /\ Running(t, "grow_copy")
    /\ LET to == nw[t][1].data IN
       heap' = [heap EXCEPT ![to].cells =
                    CopyCells(heap[inner.data].cells, heap[to].cells, inner.cap)]
    /\ pc' = [pc EXCEPT ![t] = "grow_free"]
    /\ UNCHANGED <<val, cur, sh, ex, cellVars, mutexVars, inner, top, nw, gi, borrows, nPush, left, written, vec, di, dtor, crashed, reserved>>

\* ensure_cap: dealloc(inner.data, Layout::array::<T>(inner.cap))
GrowFree(t) ==
    /\ Running(t, "grow_free")
    /\ heap' = [heap EXCEPT ![inner.data] = Freed(@)]
    /\ pc' = [pc EXCEPT ![t] = "grow_install"]
    /\ UNCHANGED <<val, cur, sh, ex, cellVars, mutexVars, inner, top, nw, gi, borrows, nPush, left, written, vec, di, dtor, crashed, reserved>>

\* ensure_cap: `*inner = new_inner`
GrowInstall(t) ==
    /\ Running(t, "grow_install")
    /\ inner' = nw[t][1]
    /\ nw' = [nw EXCEPT ![t] = None]
    /\ pc' = [pc EXCEPT ![t] = "downgrade"]
    /\ UNCHANGED <<val, cur, sh, ex, cellVars, mutexVars, heap, top, gi, borrows, nPush, left, written, vec, di, dtor, crashed, reserved>>

\* LockExclusiveGuard::downgrade, called by ensure_cap
DowngradeGuard(t) ==
    /\ val' = DowngradeWord
    /\ ex' = [ex EXCEPT ![t] = @ - 1]
    /\ sh' = [sh EXCEPT ![t] = @ + 1]
    /\ pc' = [pc EXCEPT ![t] = "push_write"]

\* ensure_cap: `return inner.downgrade()` when the capacity already covers
RecheckDowngrade(t) ==
    /\ Running(t, "recheck_downgrade")
    /\ DowngradeGuard(t)
    /\ UNCHANGED <<cur, cellVars, vecVars, mutexVars>>

\* ensure_cap: `inner.downgrade()` after the new buffer is installed
EnsureDowngrade(t) ==
    /\ Running(t, "downgrade")
    /\ DowngradeGuard(t)
    /\ UNCHANGED <<cur, cellVars, vecVars, mutexVars>>

\* the buffer cell that data.add(i) names exists: the buffer is live and i is inside it
InBuffer(b, i) == b.live /\ i < b.cap

\* push: ptr::copy(&el, inner.data.add(top_element), 1); forget(el).
\* A write outside the buffer is undefined behaviour: it lands in the memory behind
\* the buffer, or is lost (that memory is overwritten by its owner), or faults.
PushWrite(t) ==
    /\ Running(t, "push_write")
    /\ LET i == top[t][1]
           v == Element(nPush[t])
           b == heap[inner.data]
       IN IF InBuffer(b, i)
          THEN /\ heap' = [heap EXCEPT ![inner.data].cells[i + 1] = Some(v)]
               /\ written' = written \cup {<<i, v>>}
               /\ pc' = [pc EXCEPT ![t] = "push_drop"]
               /\ UNCHANGED crashed
          ELSE \/ /\ heap' = [heap EXCEPT ![inner.data].past =
                                 {p \in @ : p[1] # i} \cup {<<i, v>>}]
                  /\ written' = written \cup {<<i, v>>}
                  /\ pc' = [pc EXCEPT ![t] = "push_drop"]
                  /\ UNCHANGED crashed
               \/ /\ written' = written \cup {<<i, v>>}
                  /\ pc' = [pc EXCEPT ![t] = "push_drop"]
                  /\ UNCHANGED <<heap, crashed>>
               \/ /\ crashed' = TRUE
                  /\ UNCHANGED <<heap, written, pc>>
    /\ UNCHANGED <<val, cur, sh, ex, cellVars, mutexVars, inner, top, nw, gi, borrows, nPush, left, vec, di, dtor, reserved>>

\* push: the guard `inner` goes out of scope
PushDrop(t) ==
    /\ Running(t, "push_drop")
    /\ ReleaseShared(t)
    /\ pc' = [pc EXCEPT ![t] = "idle"]
    /\ top' = [top EXCEPT ![t] = None]
    /\ UNCHANGED <<cur, ex, cellVars, mutexVars, inner, heap, nw, gi, borrows, nPush, left, written, vec, di, dtor, crashed, reserved>>

\* get(index), for an index in `indices`: `let inner = self.lock.lock_shared()`
GetLockAt(t, indices) ==
    /\ \/ /\ CanCall(t)
          /\ left.get > 0
          /\ left' = [left EXCEPT !.get = @ - 1]
          /\ \E i \in indices : gi' = [gi EXCEPT ![t] = Some(i)]
       \/ /\ Running(t, "get_lock")
          /\ UNCHANGED <<gi, left>>
    /\ AcquireShared(t, "get_lock", "get_len")
    /\ UNCHANGED <<ex, cellVars, mutexVars, inner, heap, top, nw, borrows, nPush, written, vec, di, dtor, crashed, reserved>>

\* get(index) for any index up to MaxIndex
GetLock(t) == GetLockAt(t, 0..MaxIndex)

\* get(0)
GetFirstLock(t) == GetLockAt(t, {0})

\* AVecRefElement { inner, index }; data and cap record what inner held when it was made
Borrow(i) == [index |-> i, data |-> inner.data, cap |-> inner.cap]

\* get: `if index >= inner.len.load() { return None }`, else Some(AVecRefElement)
GetLen(t) ==
    /\ Running(t, "get_len")
    /\ IF gi[t][1] >= inner.len
       THEN /\ pc' = [pc EXCEPT ![t] = "get_none"]
            /\ UNCHANGED <<gi, borrows>>
       ELSE /\ borrows' = [borrows EXCEPT ![t] = Append(@, Borrow(gi[t][1]))]
            /\ gi' = [gi EXCEPT ![t] = None]
            /\ pc' = [pc EXCEPT ![t] = "idle"]
    /\ UNCHANGED <<val, cur, sh, ex, cellVars, mutexVars, inner, heap, top, nw, nPush, left, written, vec, di, dtor, crashed, reserved>>

\* a get that returns None and keeps its shared guard
GetNoneLeak(t) ==
    /\ Running(t, "get_none")
    /\ pc' = [pc EXCEPT ![t] = "idle"]
    /\ gi' = [gi EXCEPT ![t] = None]
    /\ UNCHANGED <<val, sh, cur, ex, cellVars, mutexVars, inner, heap, top, nw, borrows, nPush, left, written, vec, di, dtor, crashed, reserved>>

\* get: returning None drops the guard
GetNone(t) ==
    /\ Running(t, "get_none")
    /\ ReleaseShared(t)
    /\ pc' = [pc EXCEPT ![t] = "idle"]
    /\ gi' = [gi EXCEPT ![t] = None]
    /\ UNCHANGED <<cur, ex, cellVars, mutexVars, inner, heap, top, nw, borrows, nPush, left, written, vec, di, dtor, crashed, reserved>>

Without(q, k) == [j \in 1..(Len(q) - 1) |-> IF j < k THEN q[j] ELSE q[j + 1]]

\* an AVecRefElement is dropped: its guard is dropped
DropBorrow(t) ==
    /\ CanCall(t)
    /\ \E k \in 1..Len(borrows[t]) : borrows' = [borrows EXCEPT ![t] = Without(@, k)]
    /\ ReleaseShared(t)
    /\ UNCHANGED <<pc, cur, ex, cellVars, mutexVars, inner, heap, top, nw, gi, nPush, left, written, vec, di, dtor, crashed, reserved>>

\* Drop for AVec takes &mut self: no call is running and no borrow is alive
Unshared == \A u \in Threads : pc[u] = "idle" /\ borrows[u] = <<>>

\* Drop for AVec: `let inner = self.lock.lock_exclusive()`
DropLock(t) ==
    /\ \/ CanCall(t) /\ Unshared
       \/ Running(t, "drop_lock")
    /\ vec' = "dropping"
    /\ AcquireExclusive(t, "drop_lock", "drop_len")
    /\ UNCHANGED <<cur, sh, cellVars, mutexVars, inner, heap, top, nw, gi, borrows, nPush, left, written, di, dtor, crashed, reserved>>

\* Drop for AVec: `let len = inner.len.load()`
DropLen(t) ==
    /\ Running(t, "drop_len")
    /\ di' = Some([len |-> inner.len, i |-> 0])
    /\ pc' = [pc EXCEPT ![t] = "drop_loop"]
    /\ UNCHANGED <<val, cur, sh, ex, cellVars, mutexVars, inner, heap, top, nw, gi, borrows, nPush, left, written, vec, dtor, crashed, reserved>>

\* Drop for AVec: one turn of `for i in 0..len`, which moves element i out and drops it.
\* Outside the buffer the read is undefined behaviour: it yields some bytes, or faults.
DropLoop(t) ==
    /\ Running(t, "drop_loop")
    /\ LET d == di[1] IN
       IF d.i < d.len
       THEN \/ /\ dtor' = Append(dtor, d.i)
               /\ di' = Some([d EXCEPT !.i = @ + 1])
               /\ UNCHANGED <<pc, crashed>>
            \/ /\ ~InBuffer(heap[inner.data], d.i)
               /\ crashed' = TRUE
               /\ UNCHANGED <<pc, di, dtor>>
       ELSE /\ pc' = [pc EXCEPT ![t] = "drop_free"]
            /\ UNCHANGED <<di, dtor, crashed>>
    /\ UNCHANGED <<val, cur, sh, ex, cellVars, mutexVars, inner, heap, top, nw, gi, borrows, nPush, left, written, vec, reserved>>

\* Drop for AVec: dealloc(inner.data, Layout::array::<T>(inner.cap))
DropFree(t) ==
    /\ Running(t, "drop_free")
    /\ heap' = [heap EXCEPT ![inner.data] = Freed(@)]
    /\ pc' = [pc EXCEPT ![t] = "drop_unlock"]
    /\ UNCHANGED <<val, cur, sh, ex, cellVars, mutexVars, inner, top, nw, gi, borrows, nPush, left, written, vec, di, dtor, crashed, reserved>>

\* Drop for AVec: the exclusive guard goes out of scope
DropUnlock(t) ==
    /\ Running(t, "drop_unlock")
    /\ val' = ExclusiveDropWord
    /\ ex' = [ex EXCEPT ![t] = @ - 1]
    /\ pc' = [pc EXCEPT ![t] = "idle"]
    /\ vec' = "dropped"
    /\ di' = None
    /\ UNCHANGED <<cur, sh, cellVars, mutexVars, inner, heap, top, nw, gi, borrows, nPush, left, written, dtor, crashed, reserved>>

Pushing(t) ==
    \/ PushLock(t)
    \/ PushFetchAdd(t)
    \/ EnsureCheck(t)
    \/ UpgradeDrop(t)
    \/ UpgradeLock(t)
    \/ EnsureRecheck(t)
    \/ RecheckDowngrade(t)
    \/ GrowAlloc(t)
    \/ GrowCopy(t)
    \/ GrowFree(t)
    \/ GrowInstall(t)
    \/ EnsureDowngrade(t)
    \/ PushWrite(t)
    \/ PushDrop(t)

Getting(t) ==
    \/ GetLock(t)
    \/ GetLen(t)
    \/ GetNone(t)
    \/ DropBorrow(t)

Dropping(t) ==
    \/ DropLock(t)
    \/ DropLen(t)
    \/ DropLoop(t)
    \/ DropFree(t)
    \/ DropUnlock(t)

\* threads that push and get, and the drop of the vector
Next == \E t \in Threads : Pushing(t) \/ Getting(t) \/ Dropping(t)

Spec == Init /\ [][Next]_vars

\* pushes and calls of get(0) on a vector of the smallest capacity
ReadInit == LockInit /\ CellInit /\ NoMutex /\ VecInit(MaxReadPushes, MaxReads, {1})

Reading(t) ==
    \/ GetFirstLock(t)
    \/ GetLen(t)
    \/ GetNone(t)
    \/ DropBorrow(t)

\* threads that push and read the first element while the vector is alive
ReadNext == \E t \in Threads : Pushing(t) \/ Reading(t)

ReadSpec == ReadInit /\ [][ReadNext]_vars

\* threads that only push (many_threads), and the drop of the vector
PushNext == \E t \in Threads : Pushing(t) \/ Dropping(t)

PushSpec == PushInit /\ [][PushNext]_vars

\* the same, with every thread scheduled again and again: a thread that can take a
\* step of its push, or of the drop, does not wait forever
FairPushSpec ==
    /\ PushInit
    /\ [][PushNext]_vars
    /\ \A t \in Threads : WF_vars(Pushing(t)) /\ WF_vars(Dropping(t))

\* ------------------------------------------------------------------ claims

\* C1: while an exclusive guard is live it is the only live guard of the lock: its
\* owner holds exactly that one guard and no other thread holds a guard of either
\* kind, so no lock_shared or lock_exclusive completes until it is released.
C1_MutualExclusion ==
    \A t \in Threads :
        ex[t] > 0 => /\ ex[t] = 1
                     /\ sh[t] = 0
                     /\ \A u \in Threads \ {t} : sh[u] = 0 /\ ex[u] = 0

\* an exclusive guard is live while another thread is inside lock_shared or lock_exclusive
C1_Witness ==
    \E t, u \in Threads :
        /\ t # u
        /\ ex[t] = 1
        /\ pc[u] \in {"lock_shared", "lock_exclusive"}

\* the number of slots in [0, len) of the installed buffer that hold the element v
StoredCount(v) ==
    Cardinality({i \in 0..(inner.len - 1) : SlotAt(heap[inner.data], i) = Some(Element(v))})

\* C2: once every thread has completed the same number M of calls of push, len is
\* NThreads * M and the slots [0, len) hold each pushed value as often as it was pushed.
C2_PushesAllStored ==
    \A m \in 1..MaxPushes :
        (vec = "live" /\ \A t \in Threads : pc[t] = "idle" /\ nPush[t] = m)
            => /\ inner.len = NThreads * m
               /\ \A k \in 1..m : StoredCount(k) = NThreads

\* C3: when push is about to write its reserved slot, the installed capacity covers it.
C3_WriteWithinCapacity ==
    \A t \in Threads : pc[t] = "push_write" => inner.cap >= top[t][1] + 1

\* C4: from the downgrade until the downgraded guard and every shared guard taken
\* while it was live are released, the word is SHARED(n) for the n >= 1 guards that
\* are live, never FREE, and no exclusive guard is live.
C4_DowngradeGapFree ==
    dgLive => /\ SharedLive >= 1
              /\ val = WShared(SharedLive)
              /\ ExclusiveLive = 0

\* a downgraded guard and a second shared guard are live while a thread waits in lock_exclusive
C4_Witness ==
    /\ dgLive
    /\ SharedLive >= 2
    /\ \E u \in Threads : pc[u] \in {"lock_exclusive", "upgrade"}

\* C5: what the caller of upgrade reads through the guard it got back is the payload
\* as last written, and differs from what it saw under its shared guard whenever
\* another thread wrote during the gap.
C5_UpgradeSeesLatest ==
    [][\A t \in Threads :
          (got[t] = None /\ got'[t] # None)
              => /\ got'[t] = Some(data)
                 /\ gapw[t] => got'[t] # seen[t]]_vars

\* an upgrade during whose gap another thread wrote, and the upgrader has read since
C5_Witness ==
    \E t \in Threads :
        /\ ex[t] = 1
        /\ gapw[t]
        /\ got[t] # None
        /\ got[t] # seen[t]

\* C6: when a growth step frees the old buffer, every slot a push has written and the
\* old buffer still holds is in the new buffer at the same index with the same value.
C6_GrowthKeepsSlots ==
    \A t \in Threads :
        pc[t] = "grow_free" =>
            \A p \in written :
                SlotAt(heap[inner.data], p[1]) = Some(p[2])
                    => SlotAt(heap[nw[t][1].data], p[1]) = Some(p[2])

\* C7: the word is FREE with no live guard, or SHARED(n) with n >= 1 the number of live
\* shared guards and no exclusive guard, or EXCLUSIVE with one exclusive guard and no
\* shared guard.
C7_LockWord ==
    \/ val = LOCK_FREE /\ SharedLive = 0 /\ ExclusiveLive = 0
    \/ val.top = 0 /\ val.low >= 1 /\ val.low = SharedLive /\ ExclusiveLive = 0
    \/ val = LOCK_ALLOC /\ ExclusiveLive = 1 /\ SharedLive = 0

\* a thread has released a shared guard in upgrade while two shared guards stay live
C7_Witness ==
    /\ val = WShared(2)
    /\ \E t \in Threads : pc[t] = "upgrade"

\* C8: while a borrow is alive the vector still has the buffer and the capacity it
\* had when the borrow was made, and that buffer is not freed.
C8_BorrowPinsBuffer ==
    \A t \in Threads :
        \A k \in 1..Len(borrows[t]) :
            /\ inner.data = borrows[t][k].data
            /\ inner.cap = borrows[t][k].cap
            /\ heap[borrows[t][k].data].live
            /\ heap[borrows[t][k].data].cap = borrows[t][k].cap

\* a borrow is alive while another thread's push waits to grow the buffer
C8_Witness ==
    \E t, u \in Threads :
        /\ t # u
        /\ borrows[t] # <<>>
        /\ pc[u] = "upgrade_lock"

\* the steps that read or change the inner state through an exclusive guard, and
\* those that read it, reserve a slot or write a slot through a shared guard
ExclusiveSteps == {"ensure_recheck", "recheck_downgrade", "grow_alloc", "grow_copy", "grow_free",
                   "grow_install", "downgrade", "drop_len", "drop_loop", "drop_free",
                   "drop_unlock"}
SharedSteps == {"push_fetch_add", "ensure_check", "upgrade_drop", "push_write", "push_drop",
                "get_len", "get_none"}

\* C9: a thread at a step of growth or teardown has the lock word EXCLUSIVE and no
\* other thread is at a step that touches the inner state or owns a borrow; a thread
\* at a step that reads the inner state, reserves or writes a slot, or that owns a
\* borrow, has the lock word SHARED(n), n >= 1.
C9_AccessUnderLock ==
    \A t \in Threads :
        /\ pc[t] \in ExclusiveSteps =>
              /\ val = LOCK_ALLOC
              /\ borrows[t] = <<>>
              /\ \A u \in Threads \ {t} :
                     pc[u] \notin (ExclusiveSteps \cup SharedSteps) /\ borrows[u] = <<>>
        /\ (pc[t] \in SharedSteps \/ borrows[t] # <<>>) =>
              val.top = 0 /\ val.low >= 1

\* the new buffer is allocated and not yet installed while another thread is inside
\* the lock_shared of a push or of a get
C9_Witness ==
    \E t, u \in Threads :
        /\ pc[t] \in {"grow_copy", "grow_free", "grow_install"}
        /\ pc[u] \in {"push_lock", "get_lock"}

\* C10: when a growth step completes (the new buffer installed, the exclusive guard
\* downgraded) the length is at most the installed capacity.
C10_LenWithinCapAfterGrowth ==
    [][\A t \in Threads :
          (pc[t] = "downgrade" /\ pc'[t] = "push_write") => inner'.len <= inner'.cap]_vars

\* C11: in every state where the vector is alive and its buffer installed, every index
\* in [0, len) holds a value that a push has written there, and every index in
\* [len, cap) is unwritten.
C11_InitializedPrefix ==
    (vec = "live" /\ heap[inner.data].live) =>
        /\ \A i \in 0..(inner.len - 1) :
               \E p \in written : p[1] = i /\ SlotAt(heap[inner.data], i) = Some(p[2])
        /\ \A i \in inner.len..(inner.cap - 1) : SlotAt(heap[inner.data], i) = None

\* C12: the k-th reservation that any push obtains is the index k - 1, so no two
\* pushes obtain the same index; the length counter is the number of reservations
\* made, also after a growth step has replaced the inner state; and the reservations
\* two threads hold at once differ.
C12_UniqueReservation ==
    /\ \A k \in 1..Len(reserved) : reserved[k] = k - 1
    /\ inner.len = Len(reserved)
    /\ \A t \in Threads : nw[t] # None => nw[t][1].len = Len(reserved)
    /\ \A t, u \in Threads : (t # u /\ top[t] # None) => top[t] # top[u]

\* two pushes hold reservations at once, made after a growth step replaced the inner state
C12_Witness ==
    /\ Len(heap) >= 2
    /\ inner.data = 2
    /\ \E t, u \in Threads :
        /\ t # u
        /\ top[t] = Some(2)
        /\ top[u] = Some(3)

\* C13: get(index) returns None exactly when index >= the length it reads under its
\* shared guard, and then releases the guard before it returns (the word is
\* decremented and the caller's shared count is as before the call); otherwise it
\* returns a borrow for that index, the word is left incremented, and the caller's
\* shared count stays one higher until the borrow is dropped.
C13_GetResult ==
    [][\A t \in Threads :
          /\ (pc[t] = "get_len" /\ pc'[t] # "get_len") =>
                IF gi[t][1] >= inner.len
                THEN pc'[t] = "get_none" /\ borrows'[t] = borrows[t]
                ELSE /\ pc'[t] = "idle"
                     /\ borrows'[t] = Append(borrows[t], Borrow(gi[t][1]))
                     /\ sh'[t] = sh[t]
                     /\ val' = val
          /\ (pc[t] = "get_none" /\ pc'[t] = "idle") =>
                /\ val' = WSub1(val)
                /\ sh'[t] = sh[t] - 1
                /\ borrows'[t] = borrows[t]
          /\ Len(borrows'[t]) < Len(borrows[t]) =>
                /\ val' = WSub1(val)
                /\ sh'[t] = sh[t] - 1
          /\ pc'[t] = "idle" => sh'[t] = Len(borrows'[t])
          /\ val' = LOCK_ALLOC \/ val' = WShared(SumOver(sh', Threads))]_vars

\* a get of the index just past the last element has read the length and returns None
C13_Witness ==
    \E t \in Threads :
        /\ pc[t] = "get_none"
        /\ gi[t] = Some(1)
        /\ inner.len = 1

\* the destructor runs Drop::drop has made are one for each index in [0, len), in order
OneDestructorEach == dtor = [k \in 1..di[1].len |-> k - 1]

\* C14: no buffer is freed twice; when drop has returned, every buffer that was
\* allocated has been freed exactly once and one destructor has run for each index in
\* [0, len); and each destructor runs under the exclusive guard on a slot of the buffer.
C14_Teardown ==
    /\ \A b \in 1..Len(heap) : heap[b].frees <= 1
    /\ \A b \in 1..Len(heap) : heap[b].live <=> heap[b].frees = 0
    /\ \A t \in Threads :
          /\ pc[t] = "drop_unlock" =>
                /\ \A b \in 1..Len(heap) : heap[b].frees = 1
                /\ OneDestructorEach
                /\ di[1].len = inner.len
          /\ (pc[t] = "drop_loop" /\ di[1].i < di[1].len) =>
                /\ val = LOCK_ALLOC
                /\ InBuffer(heap[inner.data], di[1].i)

\* C15: lock_shared completes only from a word that is FREE or SHARED(n) and takes it
\* to SHARED(n + 1); an attempt that fails while the word is FREE or SHARED(n) failed
\* because the word was not the one expected, and leaves the word as the expected
\* value of the next attempt, so it never waits for a shared holder to release.
C15_SharedCompatible ==
    [][\A t \in Threads :
          /\ (sh'[t] = sh[t] + 1 /\ ex'[t] = ex[t]) =>
                /\ val.top = 0
                /\ val' = WShared(val.low + 1)
                /\ val' = WShared(SumOver(sh', Threads))
          /\ (pc'[t] = "lock_shared" /\ (pc[t] # "lock_shared" \/ cur'[t] # cur[t])) =>
                /\ val # cur[t]
                /\ val.top = 0 => cur'[t] = val]_vars

\* every thread owns as many shared guards as the clients take, all live at once
C15_Witness == \A t \in Threads : sh[t] = MaxGuards

\* C16: dropping a shared guard takes SHARED(n) to SHARED(n - 1), FREE when n = 1;
\* dropping an exclusive guard takes EXCLUSIVE to FREE; whenever no guard is live the
\* word is FREE, and a lock_exclusive or lock_shared called then completes at its
\* first exchange.
C16_ReleaseRestores ==
    [][/\ \A t \in Threads :
             /\ sh'[t] = sh[t] - 1 =>
                   /\ val.top = 0 /\ val.low >= 1
                   /\ val' = WShared(val.low - 1)
                   /\ val.low = 1 => val' = LOCK_FREE
             /\ (ex'[t] = ex[t] - 1 /\ sh'[t] = sh[t]) =>
                   val = LOCK_ALLOC /\ val' = LOCK_FREE
             /\ (pc[t] = "idle" /\ val = LOCK_FREE /\ pc'[t] \in {"lock_shared", "lock_exclusive"})
                   => FALSE
       /\ (SumOver(sh', Threads) = 0 /\ SumOver(ex', Threads) = 0) => val' = LOCK_FREE]_vars

\* every guard has been dropped after shared and exclusive guards were live, and a
\* thread that waited in lock_exclusive has yet to retry
C16_Witness ==
    /\ SharedLive = 0
    /\ ExclusiveLive = 0
    /\ data > 0
    /\ \E t \in Threads : pc[t] = "lock_exclusive"

\* a borrow owned by a thread other than u is alive
BorrowedByOther(u) == \E t \in Threads \ {u} : borrows[t] # <<>>

\* C17: while another thread's borrow is alive, a lock_shared of get or push fails an
\* exchange only because the word is not the one it expected and retries from the
\* word it read (it does not wait for the borrow), a push whose index the capacity
\* covers goes on to its write without an upgrade, and get answers from the length;
\* a push waiting to grow stays waiting.
C17_BorrowBlocksOnlyGrowth ==
    [][\A u \in Threads :
          BorrowedByOther(u) =>
              /\ val.top = 0 /\ val.low >= 1
              /\ (pc'[u] \in {"push_lock", "get_lock"} /\ (pc[u] # pc'[u] \/ cur'[u] # cur[u])) =>
                    /\ val # cur[u]
                    /\ cur'[u] = val
              /\ (pc[u] = "ensure_check" /\ pc'[u] # pc[u]) =>
                    pc'[u] = (IF top[u][1] < inner.cap THEN "push_write" ELSE "upgrade_drop")
              /\ (pc[u] = "get_len" /\ pc'[u] # pc[u]) =>
                    (pc'[u] = "idle" <=> gi[u][1] < inner.len)
              /\ pc[u] = "upgrade_lock" => pc'[u] = "upgrade_lock"]_vars

\* two threads own a borrow each (the second get completed while the first borrow was
\* alive) and one of them waits in a push that needs growth
C17_Witness ==
    \E t, u \in Threads :
        /\ t # u
        /\ borrows[t] # <<>>
        /\ borrows[u] # <<>>
        /\ pc[u] = "upgrade_lock"

\* live SpinMutexGuard values over all threads
MutexGuardsLive == SumOver(mg, Threads)

\* C18: at most one SpinMutexGuard is live, and the flag is set exactly while one is;
\* lock() completes only on a step that changes the flag from false to true, so no
\* lock() completes while a guard is live; dropping the guard clears the flag; and a
\* lock() called on a clear flag completes at its first swap.
C18_SpinMutexExclusion ==
    [][/\ MutexGuardsLive <= 1
       /\ locked <=> MutexGuardsLive = 1
       /\ SumOver(mg', Threads) <= 1
       /\ \A t \in Threads :
             /\ mg'[t] = mg[t] + 1 => ~locked /\ locked'
             /\ locked => mg'[t] <= mg[t]
             /\ mg'[t] = mg[t] - 1 => ~locked'
             /\ (pc[t] = "idle" /\ ~locked) => pc'[t] # "mutex_lock"]_vars

\* a thread took the mutex, dropped its guard, took the mutex again and calls lock() a
\* third time while its second guard is live
C18_Witness ==
    /\ mleft = MaxLocks - 3
    /\ mdata > 0
    /\ \E t \in Threads :
        /\ mg[t] = 1
        /\ pc[t] = "mutex_lock"
        /\ \A u \in Threads \ {t} : pc[u] = "idle"

\* C19: a push that regains the lock after its upgrade and finds that the capacity
\* covers its index goes to the downgrade and, until it has downgraded, no buffer is
\* allocated, copied into or freed and the inner state is not replaced; a buffer is
\* allocated only by a push whose index the capacity does not cover. So of two pushes
\* that wait to grow from one capacity, the second to get the lock reallocates only if
\* the first one's doubling does not cover its index.
C19_RecheckSkipsGrowth ==
    [][/\ \A t \in Threads :
             /\ (pc[t] = "ensure_recheck" /\ pc'[t] # pc[t]) =>
                   /\ pc'[t] = (IF inner.cap >= top[t][1] + 1
                                THEN "recheck_downgrade" ELSE "grow_alloc")
                   /\ heap' = heap /\ inner' = inner /\ nw' = nw
             /\ pc[t] = "recheck_downgrade" =>
                   /\ heap' = heap /\ inner' = inner /\ nw' = nw
                   /\ pc'[t] # pc[t] =>
                         /\ pc'[t] = "push_write"
                         /\ val = LOCK_ALLOC
                         /\ val' = WShared(1)
       /\ heap' # heap /\ Len(heap') > Len(heap) =>
             \E t \in Threads : pc[t] = "grow_alloc" /\ inner.cap < top[t][1] + 1]_vars

\* two pushes reserved the indices 2 and 3 and waited to grow from capacity 2; one has
\* doubled it, written its slot and returned, and the other, whose index the doubled
\* capacity covers, is about to downgrade: one reallocation from capacity 2 was made
C19_Witness ==
    \E t \in Threads :
        /\ pc[t] = "recheck_downgrade"
        /\ top[t][1] \in {2, 3}
        /\ \E p \in written : p[1] \in {2, 3} /\ p[1] # top[t][1]
        /\ inner.cap = 4
        /\ Len(heap) = inner.data
        /\ heap[inner.data - 1].cap = 2

\* the steps of push between the reservation of its slot and the write of the slot
BeforeWrite == {"ensure_check", "upgrade_drop", "upgrade_lock", "ensure_recheck",
                "recheck_downgrade", "grow_alloc", "grow_copy", "grow_free", "grow_install",
                "downgrade", "push_write"}

\* C20: from the reservation of slot i until the write of slot i the length is already
\* above i while the slot is unwritten, so the test of get(i) against the length lets
\* it through; and every borrow is for an index below the length.
C20_LenPublishedBeforeWrite ==
    /\ \A t \in Threads :
          pc[t] \in BeforeWrite =>
              /\ top[t][1] < inner.len
              /\ \A p \in written : p[1] # top[t][1]
              /\ heap[inner.data].live => SlotAt(heap[inner.data], top[t][1]) = None
    /\ \A u \in Threads :
          \A k \in 1..Len(borrows[u]) : borrows[u][k].index < inner.len

\* a get on another thread has returned a borrow for the slot a push has reserved and
\* not yet written
C20_Witness ==
    \E t, u \in Threads :
        /\ t # u
        /\ pc[t] \in BeforeWrite
        /\ \E k \in 1..Len(borrows[u]) : borrows[u][k].index = top[t][1]
        /\ SlotAt(heap[inner.data], top[t][1]) = None

\* C21: every borrow that is alive is for an index strictly below the capacity of the
\* installed buffer, which is the buffer the borrow was made on.
C21_BorrowInsideBuffer ==
    \A t \in Threads :
        \A k \in 1..Len(borrows[t]) :
            /\ borrows[t][k].index < inner.cap
            /\ InBuffer(heap[inner.data], borrows[t][k].index)

RECURSIVE Pow2(_)
Pow2(k) == IF k = 0 THEN 1 ELSE 2 * Pow2(k - 1)

\* the growth steps performed: buffers are installed in the order they are allocated,
\* so the installed buffer is the one after as many growth steps as precede it
GrowthSteps == inner.data - 1

\* C22: every step that changes the installed capacity doubles it, the capacity never
\* decreases, and after every step it is the initial capacity times 2^k for the k
\* growth steps performed, which is the capacity of the installed buffer.
C22_CapacityDoubles ==
    [][/\ inner'.cap >= inner.cap
       /\ inner'.cap # inner.cap =>
             /\ inner'.cap = 2 * inner.cap
             /\ inner'.data = inner.data + 1
       /\ inner'.cap = heap'[1].cap * Pow2(inner'.data - 1)
       /\ heap'[inner'.data].cap = inner'.cap
       /\ heap'[1].cap = heap[1].cap]_vars

\* two growth steps have been performed
C22_Witness ==
    /\ GrowthSteps = 2
    /\ inner.cap = 4 * heap[1].cap

\* the steps of a call of push that has not returned
InPush == {"push_lock", "push_fetch_add"} \cup BeforeWrite \cup {"push_drop"}

\* C23: on every weakly fair execution, every call of push that was made returns.
C23_PushesReturn ==
    \A t \in Threads : [](pc[t] \in InPush => <>(pc[t] = "idle"))

\* every call of push returns unless the process was killed by a fault
PushesReturnOrFault ==
    \A t \in Threads : [](pc[t] \in InPush => <>(pc[t] = "idle" \/ crashed))

\* Writer waits in lock_exclusive while a shared guard is live
Starving == pc[Writer] = "lock_exclusive" /\ ex[Writer] = 0 /\ SharedLive >= 1

\* a shared guard is taken or released
SharedTraffic == SumOver(sh', AllThreads) # SumOver(sh, AllThreads)

\* C24: on every weakly fair execution in which the readers never let the shared count
\* reach zero, a thread that waits in lock_exclusive while a shared guard is live waits
\* forever, never holding the lock, while the readers go on taking and releasing
\* shared guards without end.
C24_ExclusiveStarves ==
    /\ [][SharedLive >= 1 =>
            /\ SumOver(sh', AllThreads) >= 1
            /\ ex'[Writer] = 0
            /\ Starving => Starving']_vars
    /\ <>[](~Starving) \/ []<><<SharedTraffic>>_vars

\* Writer waits while every reader owns a shared guard
C24_Witness ==
    /\ Starving
    /\ \A t \in Threads : sh[t] >= 1

====
